---- MODULE Spec2Model ----
(***************************************************************************)
(* Role-scoped data access and mutation layer of the project manager.      *)
(*                                                                         *)
(* The repository holds two implementations of the same operations:        *)
(*   impl = "mem" : the simulated database `db` and the `api` object       *)
(*                  (auth.middleware.ts, lines 171-548);                   *)
(*   impl = "sql" : the Express controllers over the relational store,     *)
(*                  behind the `protect` / `authorize` middleware.         *)
(* Both work on the same tables, so one set of variables holds the store   *)
(* and `impl`, fixed by Init, says which implementation serves the calls.  *)
(* Every handler is one atomic action: the sequential behaviour of a       *)
(* request (the statements between BEGIN and COMMIT run as one step).      *)
(***************************************************************************)
EXTENDS Integers, Sequences, FiniteSets, TLC

VARIABLES
    impl,               \* "mem" | "sql"
    users,              \* user id -> [role, teamId, projectId, email, ...]
    usersCreated,       \* how many user ids have been handed out
    teams,              \* team id -> [leaderId]
    projects,           \* project id -> [teamId]
    tasks,              \* task id -> [projectId, title, endDate]
    columnId,           \* task id -> the columnId of the task row
    notifications,      \* the client's list of [userId, taskId, text, read]
    task_assignees,     \* sequence of rows [task_id, user_id]
    task_dependencies,  \* sequence of rows [source_task_id, target_task_id]
    comments,           \* sequence of rows [taskId, userId, text]
    financial_entries,  \* sequence of rows [id, type, projectId, amount]
    resp,               \* the response to the last request
    originalTask,       \* the client's copy of the task before its last update
    clients,            \* pool client -> the request it serves and how far it got
    lastCommit,         \* the pool client whose COMMIT came last
    observed            \* what the last reader's queries returned

vars == <<impl, users, usersCreated, columnId, notifications, teams, projects, tasks, task_assignees,
          task_dependencies, comments, financial_entries, resp, originalTask,
          clients, lastCommit, observed>>

\* The requests in flight and what readers saw of them.
flight == <<clients, lastCommit, observed>>

store == <<users, teams, projects, tasks, columnId, task_assignees,
           task_dependencies, comments, financial_entries>>

-----------------------------------------------------------------------------
(* Values *)

NoId == "none"          \* undefined / NULL

SuperAdminRole == "Super Admin"
TeamLeaderRole == "Team Leader"
EmployeeRole == "Employee"
GuestRole == "Guest"
Roles == {SuperAdminRole, TeamLeaderRole, EmployeeRole, GuestRole}

Impls == {"mem", "sql"}

\* Bounds of the model.
MaxAssignees == 2       \* largest assigneeIds array a request carries
MaxGuests == 1          \* guests that can be invited
MaxNewTasks == 1        \* tasks that can be created
MaxNewTeams == 1        \* teams that can be created
MaxComments == 1        \* comments that can be added
MaxBatch == 1           \* largest bulk-update batch
MaxMembers == 1         \* largest member array a team request carries
MaxNewEntries == 1      \* financial entries that can be added

\* Fixed orders of the ids: the order in which arrays list them.
UserOrder == <<"u1", "u2", "u3", "g1", "g2">>
TaskOrder == <<"t6", "t9", "t10", "t11">>
TeamOrder == <<"team-dev", "team-mkt", "team-1", "team-2">>
EntryOrder == <<"f1", "f4", "f6", "f7">>

EmailOrder == <<"e1", "e2", "e3", "e4", "e5", "e6">>

NewTaskIds == {TaskOrder[i] : i \in 3..(2 + MaxNewTasks)}
NewTeamIds == {TeamOrder[i] : i \in 3..(2 + MaxNewTeams)}
NewEntryIds == {EntryOrder[i] : i \in 3..(2 + MaxNewEntries)}

ReqTitles == {"x", "y"}
ReqDates == {1, 2}

\* The array listing the members of S in the order `order`.
AsArray(S, order) == SelectSeq(order, LAMBDA x : x \in S)

Range(s) == {s[i] : i \in 1..Len(s)}

\* The sets of at most n members of S.
SubsetsUpTo(S, n) == {X \in SUBSET S : Cardinality(X) <= n}

-----------------------------------------------------------------------------
(* The initial database: INITIAL_USERS, INITIAL_TEAMS, INITIAL_PROJECTS and *)
(* RAW_TASKS_DEPRECATED restricted to users u1..u3, projects alpha and      *)
(* gamma, tasks t6 and t9.                                                  *)

\* email: the address, "e1".."e3" for alex.doe, jane.smith and sam.wilson;
\* password: 'password123' is "pw"; disabled: absent in the seed, so FALSE.
User(role, teamId, projectId, email, password, disabled) ==
    [role |-> role, teamId |-> teamId, projectId |-> projectId,
     email |-> email, password |-> password, disabled |-> disabled]

INITIAL_USERS ==
    [u \in {"u1", "u2", "u3"} |->
        CASE u = "u1" -> User(SuperAdminRole, NoId, NoId, "e1", "pw", FALSE)
          [] u = "u2" -> User(TeamLeaderRole, "team-dev", NoId, "e2", "pw", FALSE)
          [] u = "u3" -> User(EmployeeRole, "team-dev", NoId, "e3", "pw", FALSE)]

INITIAL_TEAMS ==
    [t \in {"team-dev", "team-mkt"} |->
        IF t = "team-dev" THEN [leaderId |-> "u2"] ELSE [leaderId |-> NoId]]

INITIAL_PROJECTS ==
    [p \in {"proj-alpha", "proj-gamma"} |->
        IF p = "proj-alpha" THEN [teamId |-> "team-dev"] ELSE [teamId |-> "team-mkt"]]

INITIAL_FINANCIAL_DATA ==
    <<[id |-> "f1", type |-> "Income", projectId |-> "proj-alpha", amount |-> 1],
      [id |-> "f4", type |-> "Expense", projectId |-> "proj-gamma", amount |-> 1]>>

RAW_TASKS_DEPRECATED ==
    [t \in {"t6", "t9"} |->
        IF t = "t6"
        THEN [projectId |-> "proj-alpha", title |-> "x", endDate |-> 1,
              assigneeIds |-> <<"u2">>, dependencies |-> <<>>]
        ELSE [projectId |-> "proj-alpha", title |-> "x", endDate |-> 1,
              assigneeIds |-> <<"u3">>, dependencies |-> <<"t6">>]]

RECURSIVE Flatten(_)
Flatten(ss) == IF ss = <<>> THEN <<>> ELSE Head(ss) \o Flatten(Tail(ss))

\* decomposeTasks: the task rows and the join rows of the raw tasks.
decomposeTasks(rawTasks) ==
    LET ids == AsArray(DOMAIN rawTasks, TaskOrder)
        rawAssignees(t) == [i \in 1..Len(rawTasks[t].assigneeIds) |->
                               [task_id |-> t, user_id |-> rawTasks[t].assigneeIds[i]]]
        rawDependencies(t) == [i \in 1..Len(rawTasks[t].dependencies) |->
                               [source_task_id |-> rawTasks[t].dependencies[i],
                                target_task_id |-> t]]
    IN  [tasks |-> [t \in DOMAIN rawTasks |->
                       [projectId |-> rawTasks[t].projectId,
                        title |-> rawTasks[t].title,
                        endDate |-> rawTasks[t].endDate]],
         task_assignees |-> Flatten([i \in 1..Len(ids) |-> rawAssignees(ids[i])]),
         task_dependencies |-> Flatten([i \in 1..Len(ids) |-> rawDependencies(ids[i])])]

initialDecomposedData == decomposeTasks(RAW_TASKS_DEPRECATED)

\* A response: the operation, its outcome ("ok", "unauthorized", "notfound"),
\* the caller, the entity addressed, the request served and the payload.
Response(op, status, caller, target, req, payload) ==
    [op |-> op, status |-> status, caller |-> caller, target |-> target,
     req |-> req, payload |-> payload]

NoCaller == [id |-> NoId, role |-> NoId, teamId |-> NoId, projectId |-> NoId]
NoPayload ==
    [projects |-> {}, tasks |-> {}, users |-> {}, teams |-> {},
     financials |-> {}, comments |-> {}]
\* No task is open in the client yet.
NoTask ==
    [id |-> NoId, projectId |-> NoId, title |-> NoId, endDate |-> 0,
     assigneeIds |-> <<>>, dependencies |-> <<>>]

NoResp == Response("none", "none", NoCaller, NoId, NoId, NoPayload)

\* The clients of the connection pool (sql) or the pending calls (mem).
Clients == {"s1", "s2"}

\* A client serving nothing: pc is the statement it last completed,
\* transaction is "open" from a BEGIN to the COMMIT or ROLLBACK after it.
IdleClient ==
    [pc |-> "idle", caller |-> NoCaller, req |-> NoTask, deleted |-> {},
     transaction |-> "none"]

NoObservation ==
    [taskId |-> NoId, assigneeIds |-> <<>>, old |-> <<>>, new |-> {}, mid |-> FALSE]

Init ==
    /\ impl \in Impls
    /\ users = INITIAL_USERS
    /\ usersCreated = 0
    /\ teams = INITIAL_TEAMS
    /\ projects = INITIAL_PROJECTS
    /\ tasks = initialDecomposedData.tasks
    /\ columnId = [t \in DOMAIN RAW_TASKS_DEPRECATED |-> "col-done"]
    /\ notifications = <<>>
    /\ task_assignees = initialDecomposedData.task_assignees
    /\ task_dependencies = initialDecomposedData.task_dependencies
    /\ comments = <<>>
    /\ financial_entries = INITIAL_FINANCIAL_DATA
    /\ resp = NoResp
    /\ originalTask = NoTask
    /\ clients = [s \in Clients |-> IdleClient]
    /\ lastCommit = NoId
    /\ observed = NoObservation

-----------------------------------------------------------------------------
(* Identity context and route gates *)

\* The identity a request carries: the user as login returned it (mem: the
\* currentUser object; sql: the token payload {id, role, teamId}).
Caller(u) == [id |-> u, role |-> users[u].role, teamId |-> users[u].teamId,
              projectId |-> users[u].projectId]

Callers == {Caller(u) : u \in DOMAIN users}

\* authorize(...roles): the request passes when its role is listed.
authorize(roles, user) == user.role \in roles

\* protect: any request with a valid token passes.
protect(user) == user.role \in Roles

-----------------------------------------------------------------------------
(* View assembly *)

assigneeIdsOf(t) ==
    LET rows == SelectSeq(task_assignees, LAMBDA a : a.task_id = t)
    IN  [i \in 1..Len(rows) |-> rows[i].user_id]

dependenciesOf(t) ==
    LET rows == SelectSeq(task_dependencies, LAMBDA d : d.target_task_id = t)
    IN  [i \in 1..Len(rows) |-> rows[i].source_task_id]

\* getFullTaskViewModel / _getTaskViewModel: the task row with its assignee
\* and dependency arrays.
getFullTaskViewModel(t) ==
    [id |-> t, projectId |-> tasks[t].projectId, title |-> tasks[t].title,
     endDate |-> tasks[t].endDate,
     assigneeIds |-> assigneeIdsOf(t), dependencies |-> dependenciesOf(t)]

-----------------------------------------------------------------------------
(* Bootstrap: GET /api/bootstrap (sql) and api.getInitialData (mem) *)

\* The project ids the bootstrap controller selects for `user`.
accessibleProjectIds(user) ==
    IF user.role = SuperAdminRole THEN DOMAIN projects
    ELSE IF user.role = TeamLeaderRole
    THEN {p \in DOMAIN projects :
            user.teamId # NoId /\ projects[p].teamId = user.teamId}
    ELSE {p \in DOMAIN projects :
            \/ \E i \in 1..Len(task_assignees) :
                  /\ task_assignees[i].user_id = user.id
                  /\ task_assignees[i].task_id \in DOMAIN tasks
                  /\ tasks[task_assignees[i].task_id].projectId = p
            \/ /\ user.id \in DOMAIN users
               /\ users[user.id].projectId # NoId
               /\ users[user.id].projectId = p}

\* A bootstrap that answers a repeated call with nothing.
getInitialDataOnce(user) ==
    IF resp.op = "getInitialData" THEN NoPayload
    ELSE [NoPayload EXCEPT !.users = DOMAIN users, !.teams = DOMAIN teams]

\* The payload of the bootstrap controller for `user`: all users and teams,
\* the selected projects, their tasks and financial entries, and the
\* comments on those tasks joined to their authors.
getInitialData(user) ==
    LET projectIds == accessibleProjectIds(user)
        taskIds == {t \in DOMAIN tasks : tasks[t].projectId \in projectIds}
    IN  [projects |-> projectIds,
         tasks |-> {getFullTaskViewModel(t) : t \in taskIds},
         users |-> DOMAIN users,
         teams |-> DOMAIN teams,
         financials |-> {financial_entries[i] : i \in
                            {j \in 1..Len(financial_entries) :
                                financial_entries[j].projectId \in projectIds}},
         comments |-> {comments[i] : i \in
                            {j \in 1..Len(comments) :
                                /\ comments[j].taskId \in taskIds
                                /\ comments[j].userId \in DOMAIN users}}]

\* The payload of api.getInitialData: every table, whoever asks.
apiGetInitialData ==
    [projects |-> DOMAIN projects,
     tasks |-> {getFullTaskViewModel(t) : t \in DOMAIN tasks},
     users |-> DOMAIN users,
     teams |-> DOMAIN teams,
     financials |-> Range(financial_entries),
     comments |-> {comments[i] : i \in
                        {j \in 1..Len(comments) : comments[j].taskId \in DOMAIN tasks}}]

GetInitialData ==
    \E c \in Callers :
        /\ resp' = Response("getInitialData", "ok", c, NoId, NoId,
                            IF impl = "mem" THEN apiGetInitialData
                            ELSE getInitialData(c))
        /\ UNCHANGED <<impl, flight, notifications, usersCreated, store, originalTask>>

\* Client-side scoping (App.tsx / AppProvider).
projectsForCurrentUser(currentUser, projectIds, taskViews) ==
    IF currentUser.role = SuperAdminRole THEN projectIds
    ELSE IF currentUser.role = TeamLeaderRole
    THEN {p \in projectIds : projects[p].teamId = currentUser.teamId}
    ELSE IF currentUser.role = GuestRole
    THEN {p \in projectIds : p = currentUser.projectId}
    ELSE {p \in projectIds :
            \E t \in taskViews :
                t.projectId = p /\ currentUser.id \in Range(t.assigneeIds)}

tasksForView(currentUser, taskViews, selectedProjectId) ==
    IF selectedProjectId = NoId
    THEN IF currentUser.role = EmployeeRole
         THEN {t \in taskViews : currentUser.id \in Range(t.assigneeIds)}
         ELSE {}
    ELSE LET projectTasks == {t \in taskViews : t.projectId = selectedProjectId}
         IN  IF currentUser.role \in {GuestRole, SuperAdminRole, TeamLeaderRole}
             THEN projectTasks
             ELSE {t \in projectTasks : currentUser.id \in Range(t.assigneeIds)}

-----------------------------------------------------------------------------
(* Guests: api.inviteGuest (mem); POST /api/users with role Guest (sql) *)

\* The id of the next user row: `u-guest-${Date.now()}`, user_id of the
\* INSERT; an id is never handed out twice.
newUserId == UserOrder[3 + usersCreated + 1]

\* The addresses in use, and the first address nobody uses: an invitation is
\* sent to an address that has no account yet.
emailsOf(rows) == {rows[u].email : u \in DOMAIN rows}

unusedEmail(rows) == Head(AsArray(Range(EmailOrder) \ emailsOf(rows), EmailOrder))

\* POST /api/users is documented "Private/Super Admin".
createUserAccess == {SuperAdminRole}

\* createUser answers 400 'User with this email already exists' when a row
\* has the address; api.inviteGuest looks at the role only.
inviteGuestStatus(currentUser, email) ==
    IF impl = "mem"
    THEN IF currentUser.role \notin {SuperAdminRole, TeamLeaderRole}
         THEN "unauthorized" ELSE "ok"
    ELSE IF ~authorize(createUserAccess, currentUser) THEN "unauthorized"
    ELSE IF email \in emailsOf(users) THEN "conflict"
    ELSE "ok"

InviteGuestOver(emails) ==
    \E c \in Callers, p \in DOMAIN projects, email \in emails :
        /\ usersCreated < MaxGuests
        /\ LET g == newUserId
               st == inviteGuestStatus(c, email)
           IN  /\ users' = IF st = "ok"
                           THEN [u \in DOMAIN users \cup {g} |->
                                   IF u = g
                                   THEN User(GuestRole, NoId, p, email, "tmp", FALSE)
                                   ELSE users[u]]
                           ELSE users
               /\ usersCreated' = IF st = "ok" THEN usersCreated + 1
                                  ELSE usersCreated
               /\ resp' = Response("inviteGuest", st, c, IF st = "ok" THEN g ELSE NoId,
                                   NoId, NoPayload)
        /\ UNCHANGED <<impl, flight, notifications, columnId, financial_entries,
                       teams, projects, tasks,
                       task_assignees,
                       task_dependencies, comments, originalTask>>

\* An invitation to an address that has no account yet.
InviteGuest == InviteGuestOver({unusedEmail(users)})

-----------------------------------------------------------------------------
(* updateTask: PUT /api/tasks/:taskId (sql) and api.updateTask (mem) *)

assigneeRows(taskId, assigneeIds) ==
    [i \in 1..Len(assigneeIds) |-> [task_id |-> taskId, user_id |-> assigneeIds[i]]]

\* mem: filter the task's rows out, push one row per requested id.
apiReplaceAssignees(rows, taskId, assigneeIds) ==
    SelectSeq(rows, LAMBDA a : a.task_id # taskId) \o assigneeRows(taskId, assigneeIds)

\* The insert without the delete before it.
replaceAssigneesNoDelete(rows, taskId, assigneeIds) ==
    IF Len(assigneeIds) > 0 THEN rows \o assigneeRows(taskId, assigneeIds) ELSE rows

\* sql: DELETE FROM task_assignees WHERE task_id, then INSERT ... unnest.
replaceAssignees(rows, taskId, assigneeIds) ==
    LET kept == SelectSeq(rows, LAMBDA a : a.task_id # taskId)
    IN  IF Len(assigneeIds) > 0 THEN kept \o assigneeRows(taskId, assigneeIds) ELSE kept

\* The requests: the stored task with a title and an assignee array chosen
\* among `assignable` (the client sends the whole task object back).
UpdateTaskRequests(assignable) ==
    {[id |-> t, projectId |-> tasks[t].projectId, title |-> ti,
      endDate |-> tasks[t].endDate, assigneeIds |-> AsArray(S, UserOrder)] :
        t \in DOMAIN tasks, ti \in ReqTitles,
        S \in SubsetsUpTo(assignable, MaxAssignees)}

apiUpdateTaskStatus(updatedTask, currentUser) ==
    IF updatedTask.projectId \notin DOMAIN projects THEN "notfound"
    ELSE LET project == projects[updatedTask.projectId]
             isSuperAdmin == currentUser.role = SuperAdminRole
             isTeamLeader == /\ currentUser.role = TeamLeaderRole
                             /\ currentUser.teamId = project.teamId
             isAssignee == currentUser.id \in Range(updatedTask.assigneeIds)
         IN  IF ~isSuperAdmin /\ ~isTeamLeader /\ ~isAssignee THEN "unauthorized"
             ELSE IF updatedTask.id \in DOMAIN tasks THEN "ok"
             ELSE "notfound"

\* PUT /api/tasks/:taskId is documented "Private"; the controller checks nothing.
updateTaskAccess == Roles

updateTaskStatus(updatedTask, user) ==
    IF ~authorize(updateTaskAccess, user) THEN "unauthorized" ELSE "ok"

UpdateTaskOver(assignable) ==
    \E c \in Callers, r \in UpdateTaskRequests(assignable) :
        LET st == IF impl = "mem" THEN apiUpdateTaskStatus(r, c)
                  ELSE updateTaskStatus(r, c)
        IN  /\ tasks' = IF st # "ok" THEN tasks
                        ELSE IF impl = "mem"
                        THEN [tasks EXCEPT ![r.id] =
                                [projectId |-> r.projectId, title |-> r.title,
                                 endDate |-> r.endDate]]
                        ELSE [tasks EXCEPT ![r.id].title = r.title,
                                           ![r.id].endDate = r.endDate]
            /\ task_assignees' =
                    IF st # "ok" THEN task_assignees
                    ELSE IF impl = "mem"
                    THEN apiReplaceAssignees(task_assignees, r.id, r.assigneeIds)
                    ELSE replaceAssignees(task_assignees, r.id, r.assigneeIds)
            /\ resp' = Response("updateTask", st, c, r.id,
                                IF st = "ok" THEN r ELSE NoId, NoPayload)
            /\ UNCHANGED <<impl, flight, notifications, columnId, usersCreated,
                           financial_entries, users,
                           teams, projects, task_dependencies, comments>>

\* The Express updateTask when a query throws.  A query that throws between
\* BEGIN and COMMIT ("write") reaches the catch block, whose ROLLBACK undoes
\* the writes.  getFullTaskViewModel runs after COMMIT inside the same try:
\* when it throws ("read"), the ROLLBACK of the catch block finds no open
\* transaction, and the handler answers 500 with the writes committed.
QueryErrors == {"write", "read"}

ErrorAssignable == {"u3"}

UpdateTaskQueryError ==
    \E c \in Callers, r \in UpdateTaskRequests(ErrorAssignable),
       at \in QueryErrors :
        /\ impl = "sql"
        /\ updateTaskStatus(r, c) = "ok"
        /\ tasks' = IF at = "read"
                     THEN [tasks EXCEPT ![r.id].title = r.title,
                                        ![r.id].endDate = r.endDate]
                     ELSE tasks
        /\ task_assignees' = IF at = "read"
                              THEN replaceAssignees(task_assignees, r.id,
                                                    r.assigneeIds)
                              ELSE task_assignees
        /\ resp' = Response("updateTask", "error", c, r.id, r, NoPayload)
        /\ UNCHANGED <<impl, flight, notifications, columnId, usersCreated,
                       financial_entries, users,
                       teams, projects, task_dependencies, comments,
                       originalTask>>

\* The users that requests name as assignees, leaders and members.
Members == {u \in DOMAIN users : users[u].role # SuperAdminRole}

\* handleUpdateTask keeps the task as the client held it before the call.
UpdateTaskTracked ==
    /\ UpdateTaskOver(DOMAIN users)
    /\ originalTask' = getFullTaskViewModel(resp'.target)

UpdateTask == UpdateTaskOver(Members) /\ UNCHANGED originalTask

-----------------------------------------------------------------------------
(* addTask: POST /api/projects/:projectId/tasks (sql) and api.addTask (mem) *)

\* POST /api/projects/:projectId/tasks is documented
\* "Private/Super Admin or Team Leader".
createTaskInProjectAccess == {SuperAdminRole, TeamLeaderRole}

AddTaskRequests ==
    {[projectId |-> p, title |-> ti, endDate |-> d,
      assigneeIds |-> AsArray(S, UserOrder)] :
        p \in DOMAIN projects, ti \in ReqTitles, d \in ReqDates,
        S \in SubsetsUpTo(Members, MaxAssignees)}

apiAddTaskStatus(taskData, currentUser) ==
    IF currentUser.role # SuperAdminRole /\ currentUser.role # TeamLeaderRole
    THEN "unauthorized" ELSE "ok"

createTaskInProjectStatus(taskData, user) ==
    IF ~authorize(createTaskInProjectAccess, user) THEN "unauthorized"
    ELSE IF taskData.projectId \notin DOMAIN projects THEN "notfound"
    ELSE IF /\ user.role = TeamLeaderRole
            /\ user.teamId # projects[taskData.projectId].teamId
    THEN "unauthorized"
    ELSE "ok"

AddTask ==
    \E c \in Callers, r \in AddTaskRequests :
        /\ NewTaskIds \ DOMAIN tasks # {}
        /\ LET id == Head(AsArray(NewTaskIds \ DOMAIN tasks, TaskOrder))
               st == IF impl = "mem" THEN apiAddTaskStatus(r, c)
                     ELSE createTaskInProjectStatus(r, c)
           IN  /\ tasks' = IF st # "ok" THEN tasks
                           ELSE [t \in DOMAIN tasks \cup {id} |->
                                   IF t = id
                                   THEN [projectId |-> r.projectId, title |-> r.title,
                                         endDate |-> r.endDate]
                                   ELSE tasks[t]]
               /\ columnId' = IF st # "ok" THEN columnId
                              ELSE [t \in DOMAIN columnId \cup {id} |->
                                      IF t = id THEN "col-not-started"
                                      ELSE columnId[t]]
               /\ task_assignees' =
                       IF st # "ok" THEN task_assignees
                       ELSE task_assignees \o assigneeRows(id, r.assigneeIds)
               /\ resp' = Response("addTask", st, c, IF st = "ok" THEN id ELSE NoId,
                                   r, NoPayload)
        /\ UNCHANGED <<impl, flight, notifications, usersCreated,
                       financial_entries, users, teams,
                       projects, task_dependencies, comments,
                       originalTask>>

-----------------------------------------------------------------------------
(* bulkUpdateTasks: PATCH /api/tasks (sql) and api.bulkUpdateTasks (mem) *)

dependencyRows(taskId, dependencies) ==
    [i \in 1..Len(dependencies) |->
        [source_task_id |-> dependencies[i], target_task_id |-> taskId]]

\* The Gantt view sends stored tasks back with new dates and dependencies.
BulkTaskRequests ==
    UNION {{[id |-> t, projectId |-> tasks[t].projectId, title |-> tasks[t].title,
             endDate |-> d, dependencies |-> AsArray(D, TaskOrder)] :
                d \in ReqDates, D \in SUBSET (DOMAIN tasks \ {t})} :
           t \in DOMAIN tasks}

BulkUpdateRequests ==
    UNION {[1..n -> BulkTaskRequests] : n \in 1..MaxBatch}

\* mem: for each task of the batch that exists, replace the row and the
\* dependency rows that target it.
RECURSIVE apiBulkApply(_, _, _)
apiBulkApply(rows, deps, updatedTasks) ==
    IF updatedTasks = <<>> THEN [tasks |-> rows, task_dependencies |-> deps]
    ELSE LET updatedTask == Head(updatedTasks)
         IN  IF updatedTask.id \in DOMAIN rows
             THEN apiBulkApply(
                    [rows EXCEPT ![updatedTask.id] =
                        [projectId |-> updatedTask.projectId,
                         title |-> updatedTask.title,
                         endDate |-> updatedTask.endDate]],
                    SelectSeq(deps, LAMBDA d : d.target_task_id # updatedTask.id)
                        \o dependencyRows(updatedTask.id, updatedTask.dependencies),
                    Tail(updatedTasks))
             ELSE apiBulkApply(rows, deps, Tail(updatedTasks))

\* sql: for each task of the batch UPDATE the dates, DELETE the dependency
\* rows that target it, INSERT the requested ones.
RECURSIVE bulkApply(_, _, _)
bulkApply(rows, deps, batch) ==
    IF batch = <<>> THEN [tasks |-> rows, task_dependencies |-> deps]
    ELSE LET task == Head(batch)
         IN  bulkApply(
                IF task.id \in DOMAIN rows
                THEN [rows EXCEPT ![task.id].endDate = task.endDate] ELSE rows,
                SelectSeq(deps, LAMBDA d : d.target_task_id # task.id)
                    \o dependencyRows(task.id, task.dependencies),
                Tail(batch))

apiBulkUpdateTasksStatus(currentUser) ==
    IF currentUser.role # SuperAdminRole /\ currentUser.role # TeamLeaderRole
    THEN "unauthorized" ELSE "ok"

\* PATCH /api/tasks is documented "Private"; the controller checks nothing.
bulkUpdateTasksAccess == Roles

bulkUpdateTasksStatus(user) ==
    IF ~authorize(bulkUpdateTasksAccess, user) THEN "unauthorized" ELSE "ok"

\* api.bulkUpdateTasks ends with updatedTasks.map(t => _getTaskViewModel(
\* db.tasks.find(dbt => dbt.id === t.id)!)): for an id with no row, find
\* gives undefined and _getTaskViewModel throws on dbTask.id, after the
\* forEach has written the other tasks.  The Express handler reads each task
\* back with getFullTaskViewModel, which gives null for such an id.
apiBulkUpdateResult(rows, updatedTasks) ==
    IF \E i \in 1..Len(updatedTasks) : updatedTasks[i].id \notin DOMAIN rows
    THEN "error" ELSE "ok"

BulkUpdateTasksOver(batches) ==
    \E c \in Callers, b \in batches :
        LET auth == IF impl = "mem" THEN apiBulkUpdateTasksStatus(c)
                    ELSE bulkUpdateTasksStatus(c)
            done == IF impl = "mem" THEN apiBulkApply(tasks, task_dependencies, b)
                    ELSE bulkApply(tasks, task_dependencies, b)
            st == IF auth = "ok" /\ impl = "mem"
                  THEN apiBulkUpdateResult(done.tasks, b) ELSE auth
        IN  /\ tasks' = IF auth = "ok" THEN done.tasks ELSE tasks
            /\ task_dependencies' =
                    IF auth = "ok" THEN done.task_dependencies
                    ELSE task_dependencies
            /\ resp' = Response("bulkUpdateTasks", st, c, NoId,
                                IF auth = "ok" THEN b ELSE NoId, NoPayload)
            /\ UNCHANGED <<impl, flight, notifications, columnId, usersCreated,
                           financial_entries, users,
                           teams, projects, task_assignees, comments,
                           originalTask>>

BulkUpdateTasks == BulkUpdateTasksOver(BulkUpdateRequests)

\* A task the Gantt view still shows while it has no row: it is sent back
\* with a new date and no dependencies.
UnknownTaskId == "t0"

StaleTaskRequests ==
    {[id |-> UnknownTaskId, projectId |-> "proj-alpha", title |-> "x",
      endDate |-> d, dependencies |-> <<>>] : d \in ReqDates}

\* Batches of two different tasks, stored or not.
MixedBatches ==
    {b \in [1..2 -> BulkTaskRequests \cup StaleTaskRequests] : b[1].id # b[2].id}

BulkUpdateMixed == BulkUpdateTasksOver(MixedBatches)

\* The Gantt view sending its own copy of a task, whose title is not
\* necessarily the stored one, with new dates and dependencies.
GanttTaskRequests ==
    UNION {{[id |-> t, projectId |-> tasks[t].projectId, title |-> ti,
             endDate |-> d, dependencies |-> AsArray(D, TaskOrder)] :
                ti \in ReqTitles, d \in ReqDates,
                D \in SUBSET (DOMAIN tasks \ {t})} :
           t \in DOMAIN tasks}

BulkUpdateGantt ==
    BulkUpdateTasksOver(UNION {[1..n -> GanttTaskRequests] : n \in 1..MaxBatch})

-----------------------------------------------------------------------------
(* addComment: POST /api/tasks/:taskId/comments (sql) and api.addComment (mem) *)

CommentTexts == {"", "x"}

apiAddCommentStatus(taskId, currentUser) ==
    IF taskId \notin DOMAIN tasks THEN "notfound"
    ELSE IF tasks[taskId].projectId \notin DOMAIN projects THEN "notfound"
    ELSE LET project == projects[tasks[taskId].projectId]
             isSuperAdmin == currentUser.role = SuperAdminRole
             isTeamLeader == /\ currentUser.role = TeamLeaderRole
                             /\ currentUser.teamId = project.teamId
             isAssignee == \E i \in 1..Len(task_assignees) :
                              /\ task_assignees[i].task_id = taskId
                              /\ task_assignees[i].user_id = currentUser.id
             isGuest == /\ currentUser.role = GuestRole
                        /\ currentUser.projectId = tasks[taskId].projectId
         IN  IF ~isSuperAdmin /\ ~isTeamLeader /\ ~isAssignee /\ ~isGuest
             THEN "unauthorized" ELSE "ok"

\* POST /api/tasks/:taskId/comments is documented "Private"; the controller
\* checks only that the body has content.
addCommentToTaskAccess == Roles

addCommentToTaskStatus(content, user) ==
    IF ~authorize(addCommentToTaskAccess, user) THEN "unauthorized"
    ELSE IF content = "" THEN "badrequest"
    ELSE "ok"

AddComment ==
    \E c \in Callers, t \in DOMAIN tasks, text \in CommentTexts :
        /\ Len(comments) < MaxComments
        /\ LET st == IF impl = "mem" THEN apiAddCommentStatus(t, c)
                     ELSE addCommentToTaskStatus(text, c)
           IN  /\ comments' = IF st = "ok"
                              THEN Append(comments,
                                          [taskId |-> t, userId |-> c.id, text |-> text])
                              ELSE comments
               /\ resp' = Response("addComment", st, c, t, NoId, NoPayload)
        /\ UNCHANGED <<impl, flight, notifications, columnId, usersCreated,
                       financial_entries, users, teams,
                       projects, tasks, task_assignees,
                       task_dependencies, originalTask>>

\* The comment rows of a task, in the order they were stored.
commentsOfTask(rows, t) == SelectSeq(rows, LAMBDA c : c.taskId = t)

\* mem: return _getTaskViewModel(task), the task with its arrays and comments.
apiAddCommentResult(rows, t) ==
    [kind |-> "task", task |-> getFullTaskViewModel(t),
     comments |-> commentsOfTask(rows, t)]

\* sql: res.status(201).json(result.rows[0]), the row INSERT ... RETURNING *
\* gave back.
addCommentToTaskResult(row) == [kind |-> "comment", comment |-> row]

\* addComment with the body of its answer.
AddCommentAnswered ==
    \E c \in Callers, t \in DOMAIN tasks, text \in CommentTexts :
        /\ Len(comments) < MaxComments
        /\ LET st == IF impl = "mem" THEN apiAddCommentStatus(t, c)
                     ELSE addCommentToTaskStatus(text, c)
               row == [taskId |-> t, userId |-> c.id, text |-> text]
               rows == Append(comments, row)
           IN  /\ comments' = IF st = "ok" THEN rows ELSE comments
               /\ resp' = Response("addComment", st, c, t, NoId,
                                   IF st # "ok" THEN NoPayload
                                   ELSE IF impl = "mem"
                                   THEN apiAddCommentResult(rows, t)
                                   ELSE addCommentToTaskResult(row))
        /\ UNCHANGED <<impl, flight, notifications, columnId, usersCreated,
                       financial_entries, users, teams,
                       projects, tasks, task_assignees,
                       task_dependencies, originalTask>>

-----------------------------------------------------------------------------
(* Teams: the /api/teams routes (sql) and api.createTeam .. removeUserFromTeam (mem) *)

\* The teams router: authorize('Super Admin') guards POST /, PUT /:teamId and
\* DELETE /:teamId; authorize('Super Admin', 'Team Leader') guards the
\* members routes.
teamsAccessAnyRole == Roles
teamsAccess == {SuperAdminRole}
teamMembersAccess == {SuperAdminRole, TeamLeaderRole}

TeamIds == DOMAIN INITIAL_TEAMS \cup NewTeamIds

\* The leader a createTeam request names (none at all included; the team
\* form always sends one on update) and the member arrays of the requests.
LeaderIds == Members \cup {NoId}
MemberIdSets == SubsetsUpTo(Members, MaxMembers)

\* users with the teamId of every user of `ids` set to `teamId`.
assignTeam(rows, ids, teamId) ==
    [u \in DOMAIN rows |-> IF u \in ids THEN [rows[u] EXCEPT !.teamId = teamId]
                           ELSE rows[u]]

apiCreateTeamStatus(currentUser) ==
    IF currentUser.role # SuperAdminRole THEN "unauthorized" ELSE "ok"

createTeamStatus(team_leader_id, user) ==
    IF ~authorize(teamsAccess, user) THEN "unauthorized"
    ELSE IF team_leader_id = NoId THEN "badrequest"
    ELSE "ok"

\* SELECT user_id as id, ..., team_id as "teamId" FROM users WHERE user_id =
\* ANY(ids), read after the writes; api.createTeam pushes the same rows.
selectUsers(rows, ids) ==
    {[id |-> u, teamId |-> rows[u].teamId] : u \in ids \cap DOMAIN rows}

\* A deleted team leaves no row and no user.teamId behind, so taking the
\* first id not in use stands for a fresh id.
CreateTeam ==
    \E c \in Callers, leaderId \in LeaderIds, memberIds \in MemberIdSets :
        /\ NewTeamIds \ DOMAIN teams # {}
        /\ LET id == Head(AsArray(NewTeamIds \ DOMAIN teams, TeamOrder))
               st == IF impl = "mem" THEN apiCreateTeamStatus(c)
                     ELSE createTeamStatus(leaderId, c)
           IN  /\ teams' = IF st # "ok" THEN teams
                           ELSE [t \in DOMAIN teams \cup {id} |->
                                   IF t = id THEN [leaderId |-> leaderId]
                                   ELSE teams[t]]
               /\ users' = IF st # "ok" THEN users
                           ELSE assignTeam(users, memberIds \cup {leaderId}, id)
               /\ resp' = Response("createTeam", st, c,
                                   IF st = "ok" THEN id ELSE NoId, NoId,
                                   IF st = "ok"
                                   THEN [updatedUsers |->
                                           selectUsers(users', memberIds \cup {leaderId})]
                                   ELSE NoPayload)
        /\ UNCHANGED <<impl, flight, notifications, columnId, usersCreated,
                       financial_entries, projects,
                       tasks, task_assignees,
                       task_dependencies,
                       comments, originalTask>>

apiUpdateTeamStatus(teamId, currentUser) ==
    IF currentUser.role # SuperAdminRole THEN "unauthorized"
    ELSE IF teamId \notin DOMAIN teams THEN "notfound"
    ELSE "ok"

updateTeamStatus(teamId, user) ==
    IF ~authorize(teamsAccess, user) THEN "unauthorized"
    ELSE IF teamId \notin DOMAIN teams THEN "notfound"
    ELSE "ok"

\* Both implementations: the team's leader is replaced; users of the team
\* not among the new members lose their teamId, new members get it.
updateTeamMembers(rows, teamId, leaderId, memberIds) ==
    LET newMemberIds == memberIds \cup {leaderId}
    IN  [u \in DOMAIN rows |->
            IF u \in newMemberIds /\ rows[u].teamId # teamId
            THEN [rows[u] EXCEPT !.teamId = teamId]
            ELSE IF u \notin newMemberIds /\ rows[u].teamId = teamId
            THEN [rows[u] EXCEPT !.teamId = NoId]
            ELSE rows[u]]

\* sql updateTeam: usersToAdd, usersToRemove, memberIds and leaderId.
allAffectedIds(rows, teamId, leaderId, memberIds) ==
    LET currentMemberIds == {u \in DOMAIN rows : rows[u].teamId = teamId}
        newMemberIds == memberIds \cup {leaderId}
    IN  (newMemberIds \ currentMemberIds) \cup (currentMemberIds \ newMemberIds)
            \cup memberIds \cup {leaderId}

\* Only the users that joined the team.
apiAddedUsers(before, after, teamId) ==
    {[id |-> u, teamId |-> after[u].teamId] :
        u \in {v \in DOMAIN before :
                    before[v].teamId # teamId /\ after[v].teamId = teamId}}

\* api.updateTeam pushes every user it moves into the team or out of it.
apiUpdatedUsers(before, after, teamId) ==
    {[id |-> u, teamId |-> after[u].teamId] :
        u \in {v \in DOMAIN before :
                    \/ before[v].teamId # teamId /\ after[v].teamId = teamId
                    \/ before[v].teamId = teamId /\ after[v].teamId # teamId}}

UpdateTeam ==
    \E c \in Callers, teamId \in TeamIds, leaderId \in Members,
       memberIds \in MemberIdSets :
        LET st == IF impl = "mem" THEN apiUpdateTeamStatus(teamId, c)
                  ELSE updateTeamStatus(teamId, c)
        IN  /\ teams' = IF st = "ok"
                        THEN [teams EXCEPT ![teamId].leaderId = leaderId]
                        ELSE teams
            /\ users' = IF st = "ok"
                        THEN updateTeamMembers(users, teamId, leaderId, memberIds)
                        ELSE users
            /\ resp' = Response("updateTeam", st, c,
                                IF st = "unauthorized" THEN NoId ELSE teamId,
                                NoId,
                                IF st # "ok" THEN NoPayload
                                ELSE IF impl = "mem"
                                THEN [updatedUsers |->
                                        apiUpdatedUsers(users, users', teamId)]
                                ELSE [updatedUsers |->
                                        selectUsers(users',
                                            allAffectedIds(users, teamId, leaderId,
                                                           memberIds))])
            /\ UNCHANGED <<impl, flight, notifications, columnId, usersCreated,
                           financial_entries, projects,
                           tasks, task_assignees,
                       task_dependencies,
                           comments, originalTask>>

\* The users of a team, its leader left out.
usersOfTeamButLeader(rows, teamId) ==
    {u \in DOMAIN rows : rows[u].teamId = teamId /\ rows[u].role # TeamLeaderRole}

\* The users whose teamId is the team's: UPDATE users ... WHERE team_id = $1.
usersOfTeam(rows, teamId) == {u \in DOMAIN rows : rows[u].teamId = teamId}

apiDeleteTeamStatus(currentUser) ==
    IF currentUser.role # SuperAdminRole THEN "unauthorized" ELSE "ok"

deleteTeamStatus(user) ==
    IF ~authorize(teamsAccess, user) THEN "unauthorized" ELSE "ok"

DeleteTeam ==
    \E c \in Callers, teamId \in TeamIds :
        LET st == IF impl = "mem" THEN apiDeleteTeamStatus(c)
                  ELSE deleteTeamStatus(c)
        IN  /\ teams' = IF st = "ok"
                        THEN [t \in DOMAIN teams \ {teamId} |-> teams[t]]
                        ELSE teams
            /\ users' = IF st = "ok"
                        THEN assignTeam(users, usersOfTeam(users, teamId), NoId)
                        ELSE users
            /\ resp' = Response("deleteTeam", st, c,
                                IF st = "unauthorized" THEN NoId ELSE teamId,
                                NoId, NoPayload)
            /\ UNCHANGED <<impl, flight, notifications, columnId, usersCreated,
                           financial_entries, projects,
                           tasks, task_assignees,
                       task_dependencies,
                           comments, originalTask>>

\* api.addUsersToTeam: the team exists, the caller is a Super Admin or the
\* Team Leader with this teamId.
apiAddUsersToTeamStatus(teamId, currentUser) ==
    IF teamId \notin DOMAIN teams THEN "notfound"
    ELSE IF /\ currentUser.role # SuperAdminRole
            /\ (currentUser.role # TeamLeaderRole \/ currentUser.teamId # teamId)
    THEN "unauthorized"
    ELSE "ok"

\* addMembersToTeam: a Team Leader passes when the team's team_leader_id is
\* the caller's id.
addMembersToTeamStatus(teamId, user_ids, requestingUser) ==
    IF ~authorize(teamMembersAccess, requestingUser) THEN "unauthorized"
    ELSE IF user_ids = {} THEN "badrequest"
    ELSE IF teamId \notin DOMAIN teams THEN "notfound"
    ELSE IF /\ requestingUser.role = TeamLeaderRole
            /\ teams[teamId].leaderId # requestingUser.id
    THEN "unauthorized"
    ELSE "ok"

\* mem sets the teamId of every listed user; sql only of those with none.
AddMembersToTeam ==
    \E c \in Callers, teamId \in TeamIds, user_ids \in MemberIdSets :
        LET st == IF impl = "mem" THEN apiAddUsersToTeamStatus(teamId, c)
                  ELSE addMembersToTeamStatus(teamId, user_ids, c)
            added == IF impl = "mem" THEN user_ids
                     ELSE {u \in user_ids : users[u].teamId = NoId}
        IN  /\ users' = IF st = "ok" THEN assignTeam(users, added, teamId) ELSE users
            /\ resp' = Response("addMembersToTeam", st, c, teamId, NoId, NoPayload)
            /\ UNCHANGED <<impl, flight, notifications, columnId, usersCreated,
                           financial_entries, teams,
                           projects, tasks, task_assignees,
                           task_dependencies, comments, originalTask>>

\* api.removeUserFromTeam(userId): the team is the one the user is in.
apiRemoveUserFromTeamStatus(userId, currentUser) ==
    IF userId \notin DOMAIN users THEN "notfound"
    ELSE IF /\ currentUser.role # SuperAdminRole
            /\ \/ currentUser.role # TeamLeaderRole
               \/ currentUser.teamId # users[userId].teamId
    THEN "unauthorized"
    ELSE "ok"

\* DELETE /api/teams/:teamId/members/:userId: the row is updated only when
\* the user is in that team.
removeUserFromTeamStatus(teamId, userId, requestingUser) ==
    IF ~authorize(teamMembersAccess, requestingUser) THEN "unauthorized"
    ELSE IF requestingUser.role = TeamLeaderRole /\ requestingUser.teamId # teamId
    THEN "unauthorized"
    ELSE IF userId \notin DOMAIN users \/ users[userId].teamId # teamId
    THEN "notfound"
    ELSE "ok"

RemoveUserFromTeam ==
    \E c \in Callers, userId \in Members, param \in TeamIds :
        LET teamId == IF impl = "mem" THEN users[userId].teamId ELSE param
            st == IF impl = "mem" THEN apiRemoveUserFromTeamStatus(userId, c)
                  ELSE removeUserFromTeamStatus(teamId, userId, c)
        IN  /\ users' = IF st = "ok" THEN assignTeam(users, {userId}, NoId) ELSE users
            /\ resp' = Response("removeUserFromTeam", st, c, teamId, NoId, NoPayload)
            /\ UNCHANGED <<impl, flight, notifications, columnId, usersCreated,
                           financial_entries, teams,
                           projects, tasks, task_assignees,
                           task_dependencies, comments, originalTask>>

-----------------------------------------------------------------------------
(* Finances: POST /api/finances/entries (sql) and api.addFinancialTransaction (mem) *)

EntryTypes == {"Income", "Expense"}
ReqAmounts == {1, 2}

\* POST /api/finances/entries is documented
\* "Private/Super Admin or Team Leader".
addFinancialEntryAccess == {SuperAdminRole, TeamLeaderRole}

FinancialRequests ==
    {[type |-> ty, projectId |-> p, amount |-> a] :
        ty \in EntryTypes, p \in DOMAIN projects, a \in ReqAmounts}

apiAddFinancialTransactionStatus(transactionData, currentUser) ==
    IF currentUser.role # SuperAdminRole /\ currentUser.role # TeamLeaderRole
    THEN "unauthorized" ELSE "ok"

addFinancialEntryStatus(body, user) ==
    IF ~authorize(addFinancialEntryAccess, user) THEN "unauthorized"
    ELSE IF body.type = "Income" /\ user.role # SuperAdminRole THEN "unauthorized"
    ELSE "ok"

\* mem puts the new entry first (unshift); sql inserts a row.
AddFinancialTransaction ==
    \E c \in Callers, r \in FinancialRequests :
        /\ NewEntryIds \ {financial_entries[i].id : i \in 1..Len(financial_entries)} # {}
        /\ LET used == {financial_entries[i].id : i \in 1..Len(financial_entries)}
               id == Head(AsArray(NewEntryIds \ used, EntryOrder))
               row == [id |-> id, type |-> r.type, projectId |-> r.projectId,
                       amount |-> r.amount]
               st == IF impl = "mem" THEN apiAddFinancialTransactionStatus(r, c)
                     ELSE addFinancialEntryStatus(r, c)
           IN  /\ financial_entries' =
                       IF st # "ok" THEN financial_entries
                       ELSE IF impl = "mem" THEN <<row>> \o financial_entries
                       ELSE Append(financial_entries, row)
               /\ resp' = Response("addFinancialTransaction", st, c,
                                   IF st = "ok" THEN id ELSE NoId, r, NoPayload)
        /\ UNCHANGED <<impl, flight, notifications, columnId, usersCreated, users,
                       teams, projects, tasks,
                       task_assignees,
                       task_dependencies, comments, originalTask>>

-----------------------------------------------------------------------------
(* Notification fanout in the client: addNotification, the overdue sweep,    *)
(* handleUpdateTask, handleAddComment, handleSetNotificationsRead (App.tsx). *)
(* The client holds the users, projects and tasks the server returned to it. *)

NotificationTypes == {"onAssignment", "onComment", "onStatusChange", "onDueDateChange"}

\* The categories a user has switched on: the seed values of u1..u3; every
\* user created later starts with all four.
notificationPreferences(u) ==
    IF u = "u3" THEN {"onAssignment", "onDueDateChange"} ELSE NotificationTypes

\* The filter of addNotification with the preference test left out.
hasPermissionAlways(userId, type) == TRUE

\* !user?.notificationPreferences || user.notificationPreferences[type]
\*     || user.role === 'Guest'
hasPermission(userId, type) ==
    \/ userId \notin DOMAIN users
    \/ type \in notificationPreferences(userId)
    \/ users[userId].role = GuestRole

\* A text is the pattern of the message, the task title in it, and what else
\* the pattern interpolates.
Text(kind, title, detail) == [kind |-> kind, title |-> title, detail |-> detail]

sameText(a, b) == a.kind = b.kind /\ a.title = b.title /\ a.detail = b.detail

Candidate(userId, taskId, text) == [userId |-> userId, taskId |-> taskId, text |-> text]

\* addNotification that never looks at the notifications already held.
addNotificationNoDedup(prev, newNotifications, type) ==
    LET added == SelectSeq(newNotifications,
                    LAMBDA n : hasPermission(n.userId, type))
    IN  [i \in 1..Len(added) |->
            [userId |-> added[i].userId, taskId |-> added[i].taskId,
             text |-> added[i].text, read |-> FALSE]] \o prev

\* addNotification: the candidates that pass the preference filter and have
\* no unread twin in prev, in front of prev.
addNotification(prev, newNotifications, type) ==
    LET added == SelectSeq(newNotifications,
                    LAMBDA n : /\ hasPermission(n.userId, type)
                               /\ ~\E i \in 1..Len(prev) :
                                      /\ prev[i].userId = n.userId
                                      /\ prev[i].taskId = n.taskId
                                      /\ sameText(prev[i].text, n.text)
                                      /\ ~prev[i].read)
    IN  [i \in 1..Len(added) |->
            [userId |-> added[i].userId, taskId |-> added[i].taskId,
             text |-> added[i].text, read |-> FALSE]] \o prev

\* getTeamLeaderForTask: the first Team Leader whose teamId is the teamId of
\* the task's project, NoId when there is none.
getTeamLeaderForTask(projectId) ==
    IF projectId \notin DOMAIN projects THEN NoId
    ELSE LET found == SelectSeq(AsArray(DOMAIN users, UserOrder),
                        LAMBDA u : /\ users[u].role = TeamLeaderRole
                                   /\ users[u].teamId = projects[projectId].teamId)
         IN  IF found = <<>> THEN NoId ELSE Head(found)

\* The day of the sweep; the seed tasks (endDate d(-25)) ended before it.
Today == 2

MaxNotifications == 4

\* The overdue sweep: one candidate for each task that ended before today,
\* is not in col-done and has a team leader.
overdueNotifications ==
    LET late == SelectSeq(AsArray(DOMAIN tasks, TaskOrder),
                    LAMBDA t : /\ tasks[t].endDate < Today
                               /\ columnId[t] # "col-done"
                               /\ getTeamLeaderForTask(tasks[t].projectId) # NoId)
    IN  [i \in 1..Len(late) |->
            Candidate(getTeamLeaderForTask(tasks[late[i]].projectId), late[i],
                      Text("overdue", tasks[late[i]].title, <<>>))]

OverdueSweep ==
    /\ Len(overdueNotifications) > 0
    /\ notifications' = addNotification(notifications, overdueNotifications,
                                        "onStatusChange")
    /\ Len(notifications') <= MaxNotifications
    /\ UNCHANGED <<impl, flight, usersCreated, store, resp, originalTask>>

\* handleSetNotificationsRead(ids): the notifications at the given places are
\* marked read.
SetNotificationsRead ==
    \E ids \in SUBSET (1..Len(notifications)) :
        /\ ids # {}
        /\ notifications' = [i \in 1..Len(notifications) |->
                                IF i \in ids
                                THEN [notifications[i] EXCEPT !.read = TRUE]
                                ELSE notifications[i]]
        /\ UNCHANGED <<impl, flight, usersCreated, store, resp, originalTask>>

Columns == {"col-done", "col-stuck"}

\* The notifications handleUpdateTask derives from the task before and the
\* task returned: a move to col-done or col-stuck goes to the team leader
\* and the Super Admins, a new endDate to the assignees, an assignment to
\* the new assignees.
statusChangeNotifications(original, returned) ==
    IF /\ returned.columnId # original.columnId
       /\ returned.columnId \in {"col-done", "col-stuck"}
    THEN LET assignees == AsArray(Range(returned.assigneeIds) \cap DOMAIN users,
                                  UserOrder)
             text == IF returned.columnId = "col-done"
                     THEN Text("done", returned.title, assignees)
                     ELSE Text("stuck", returned.title, <<>>)
             teamLeader == getTeamLeaderForTask(returned.projectId)
             superAdmins == SelectSeq(AsArray(DOMAIN users, UserOrder),
                               LAMBDA u : users[u].role = SuperAdminRole)
             recipients == (IF teamLeader # NoId THEN <<teamLeader>> ELSE <<>>)
                               \o superAdmins
         IN  [i \in 1..Len(recipients) |->
                Candidate(recipients[i], returned.id, text)]
    ELSE <<>>

dueDateNotifications(original, returned) ==
    IF returned.endDate # original.endDate
    THEN [i \in 1..Len(returned.assigneeIds) |->
            Candidate(returned.assigneeIds[i], returned.id,
                      Text("due", returned.title, <<returned.endDate>>))]
    ELSE <<>>

assignmentNotifications(original, returned) ==
    LET newAssignees == SelectSeq(returned.assigneeIds,
                           LAMBDA u : u \notin Range(original.assigneeIds))
    IN  [i \in 1..Len(newAssignees) |->
            Candidate(newAssignees[i], returned.id,
                      Text("assigned", returned.title, <<>>))]

\* The task object the client holds for a stored task.
clientTask(t) ==
    [id |-> t, projectId |-> tasks[t].projectId, title |-> tasks[t].title,
     endDate |-> tasks[t].endDate, columnId |-> columnId[t],
     assigneeIds |-> assigneeIdsOf(t)]

\* handleUpdateTask for a task moved to another column or given another
\* endDate: api.updateTask, then the three addNotification calls.
handleUpdateTaskOver(cols, dates) ==
    \E c \in Callers, t \in DOMAIN tasks, col \in cols, d \in dates :
        LET original == clientTask(t)
            r == [original EXCEPT !.columnId = col, !.endDate = d]
            st == IF impl = "mem" THEN apiUpdateTaskStatus(r, c)
                  ELSE updateTaskStatus(r, c)
            n1 == addNotification(notifications,
                                  statusChangeNotifications(original, r),
                                  "onStatusChange")
            n2 == addNotification(n1, dueDateNotifications(original, r),
                                  "onDueDateChange")
            n3 == addNotification(n2, assignmentNotifications(original, r),
                                  "onAssignment")
        IN  /\ tasks' = IF st # "ok" THEN tasks
                        ELSE [tasks EXCEPT ![t].endDate = d]
            /\ columnId' = IF st # "ok" THEN columnId
                           ELSE [columnId EXCEPT ![t] = col]
            /\ task_assignees' =
                    IF st # "ok" THEN task_assignees
                    ELSE IF impl = "mem"
                    THEN apiReplaceAssignees(task_assignees, t, r.assigneeIds)
                    ELSE replaceAssignees(task_assignees, t, r.assigneeIds)
            /\ notifications' = IF st = "ok" THEN n3 ELSE notifications
            /\ Len(notifications') <= MaxNotifications
            /\ resp' = Response("updateTask", st, c, t, NoId, NoPayload)
            /\ UNCHANGED <<impl, flight, usersCreated, financial_entries, users, teams,
                           projects, task_dependencies, comments, originalTask>>

handleUpdateTask == handleUpdateTaskOver(Columns, ReqDates)

\* A task dragged to another column, its endDate as it was.
handleMoveTask ==
    handleUpdateTaskOver(Columns, {tasks[t].endDate : t \in DOMAIN tasks})

\* A task given another endDate, its column as it was.
handleRescheduleTask ==
    handleUpdateTaskOver({columnId[t] : t \in DOMAIN tasks}, ReqDates)

\* The notifications handleAddComment derives: to the assignees, the team
\* leader, the Super Admins and the guests of the project, the author left
\* out.
commentNotifications(task, author) ==
    LET teamLeader == getTeamLeaderForTask(task.projectId)
        recipients ==
            Range(task.assigneeIds)
                \cup (IF teamLeader # NoId THEN {teamLeader} ELSE {})
                \cup {u \in DOMAIN users : users[u].role = SuperAdminRole}
                \cup {u \in DOMAIN users : /\ users[u].role = GuestRole
                                           /\ users[u].projectId = task.projectId}
        order == SelectSeq(task.assigneeIds \o AsArray(DOMAIN users, UserOrder),
                           LAMBDA u : u \in recipients /\ u # author)
    IN  [i \in 1..Len(order) |->
            Candidate(order[i], task.id, Text("comment", task.title, <<author>>))]

\* handleAddComment: api.addComment, then addNotification.
handleAddComment ==
    \E c \in Callers, t \in DOMAIN tasks :
        /\ Len(comments) < MaxComments
        /\ LET st == IF impl = "mem" THEN apiAddCommentStatus(t, c)
                     ELSE addCommentToTaskStatus("x", c)
           IN  /\ comments' = IF st = "ok"
                              THEN Append(comments,
                                      [taskId |-> t, userId |-> c.id, text |-> "x"])
                              ELSE comments
               /\ notifications' =
                      IF st = "ok"
                      THEN addNotification(notifications,
                              commentNotifications(clientTask(t), c.id),
                              "onComment")
                      ELSE notifications
               /\ resp' = Response("addComment", st, c, t, NoId, NoPayload)
        /\ UNCHANGED <<impl, flight, usersCreated, financial_entries, users, teams,
                       projects, tasks, columnId, task_assignees,
                       task_dependencies, originalTask>>

-----------------------------------------------------------------------------
(* updateTask statement by statement: the transaction of the Express        *)
(* handler on its pool client (BEGIN, UPDATE, DELETE, INSERT, COMMIT, then   *)
(* the answer), api.updateTask after its simulated delay, and the readers    *)

\* The requests the concurrent calls carry.
ConcurrentRequests == UpdateTaskRequests(ErrorAssignable)

\* The statements of a transaction that ran and are not committed yet.
InFlight == {"begun", "updated", "deleted", "inserted"}

\* The client's UPDATE of the row of task t ran and its COMMIT did not: the
\* row is locked for every other writer.
holdsRowLock(s, t) ==
    /\ clients[s].req.id = t
    /\ clients[s].pc \in {"updated", "deleted", "inserted"}

\* An UPDATE that waits for nobody.
rowNeverLocked(s, t) == FALSE

\* UPDATE tasks ... WHERE task_id = t waits while another transaction holds
\* the row.
rowLocked(s, t) == \E o \in Clients \ {s} : holdsRowLock(o, t)

\* The rows of task_assignees a statement of client s finds for task t: the
\* committed rows.
assigneeRowsOf(t) == SelectSeq(task_assignees, LAMBDA a : a.task_id = t)

\* The request arrives: pool.connect() and BEGIN (sql), the call and its
\* simulated delay (mem).
BeginUpdateTaskOver(s, callers, requests) ==
    \E c \in callers, r \in requests :
        /\ clients[s].pc = "idle"
        /\ impl = "sql" => updateTaskStatus(r, c) = "ok"
        /\ clients' = [clients EXCEPT
                          ![s] = [pc |-> "begun", caller |-> c, req |-> r,
                                  deleted |-> {},
                                  transaction |-> IF impl = "sql" THEN "open"
                                                  ELSE clients[s].transaction]]
        /\ UNCHANGED <<impl, usersCreated, notifications, store, resp,
                       originalTask, lastCommit, observed>>

\* The task both writers edit.
SharedTask == "t9"

\* Two Super Admins at work on the same task.
BeginUpdateTask(s) ==
    BeginUpdateTaskOver(s, {c \in Callers : c.role = SuperAdminRole},
                        {r \in ConcurrentRequests : r.id = SharedTask})

\* A request that changes the assignees and nothing else.
BeginReassignTask(s) ==
    BeginUpdateTaskOver(s, Callers,
                        {r \in ConcurrentRequests : r.title = tasks[r.id].title})

\* UPDATE tasks SET title, end_date, ... WHERE task_id.
UpdateTaskRow(s) ==
    /\ impl = "sql"
    /\ clients[s].pc = "begun"
    /\ ~rowLocked(s, clients[s].req.id)
    /\ clients' = [clients EXCEPT ![s].pc = "updated"]
    /\ UNCHANGED <<impl, usersCreated, notifications, store, resp,
                   originalTask, lastCommit, observed>>

\* DELETE FROM task_assignees WHERE task_id: the rows it finds are gone when
\* the transaction commits.
DeleteAssigneeRows(s) ==
    /\ impl = "sql"
    /\ clients[s].pc = "updated"
    /\ clients' = [clients EXCEPT
                      ![s].pc = "deleted",
                      ![s].deleted = Range(assigneeRowsOf(clients[s].req.id))]
    /\ UNCHANGED <<impl, usersCreated, notifications, store, resp,
                   originalTask, lastCommit, observed>>

\* INSERT INTO task_assignees ... unnest, when the array is not empty.
InsertAssigneeRows(s) ==
    /\ impl = "sql"
    /\ clients[s].pc = "deleted"
    /\ clients' = [clients EXCEPT ![s].pc = "inserted"]
    /\ UNCHANGED <<impl, usersCreated, notifications, store, resp,
                   originalTask, lastCommit, observed>>

\* COMMIT: the writes of the transaction reach the tables.
CommitUpdateTask(s) ==
    /\ impl = "sql"
    /\ clients[s].pc = "inserted"
    /\ LET r == clients[s].req
       IN  /\ tasks' = [tasks EXCEPT ![r.id].title = r.title,
                                     ![r.id].endDate = r.endDate]
           /\ task_assignees' =
                  SelectSeq(task_assignees,
                            LAMBDA a : a \notin clients[s].deleted)
                      \o assigneeRows(r.id, r.assigneeIds)
    /\ clients' = [clients EXCEPT ![s].pc = "committed",
                                  ![s].transaction = "none"]
    /\ lastCommit' = s
    /\ UNCHANGED <<impl, usersCreated, notifications, users, teams, projects,
                   columnId, task_dependencies, comments, financial_entries,
                   resp, originalTask, observed>>

\* api.updateTask once its delay is over: the checks and the writes in one
\* turn of the event loop.
apiRunUpdateTask(s) ==
    /\ impl = "mem"
    /\ clients[s].pc = "begun"
    /\ LET r == clients[s].req
           c == clients[s].caller
           st == apiUpdateTaskStatus(r, c)
       IN  /\ tasks' = IF st # "ok" THEN tasks
                       ELSE [tasks EXCEPT ![r.id] =
                               [projectId |-> r.projectId, title |-> r.title,
                                endDate |-> r.endDate]]
           /\ task_assignees' =
                  IF st # "ok" THEN task_assignees
                  ELSE apiReplaceAssignees(task_assignees, r.id, r.assigneeIds)
           /\ clients' = [clients EXCEPT
                             ![s] = IF st = "ok"
                                    THEN [clients[s] EXCEPT !.pc = "committed"]
                                    ELSE [IdleClient EXCEPT
                                            !.transaction =
                                                clients[s].transaction]]
           /\ lastCommit' = IF st = "ok" THEN s ELSE lastCommit
           /\ resp' = IF st = "ok" THEN resp
                      ELSE Response("updateTask", st, c, r.id, NoId, NoPayload)
    /\ UNCHANGED <<impl, usersCreated, notifications, users, teams, projects,
                   columnId, task_dependencies, comments, financial_entries,
                   originalTask, observed>>

\* The answer: res.json(updatedTask) and client.release(), or the promise
\* resolved.
RespondUpdateTask(s) ==
    /\ clients[s].pc = "committed"
    /\ resp' = Response("updateTask", "ok", clients[s].caller,
                        clients[s].req.id, clients[s].req, NoPayload)
    /\ clients' = [clients EXCEPT
                      ![s] = [IdleClient EXCEPT
                                !.transaction = clients[s].transaction]]
    /\ UNCHANGED <<impl, usersCreated, notifications, store, originalTask,
                   lastCommit, observed>>

\* A reader that sees the rows of transactions still open.
assigneesQueryUncommitted(t) ==
    LET writers == {s \in Clients : /\ clients[s].req.id = t
                                    /\ clients[s].pc \in {"deleted", "inserted"}}
    IN  IF writers = {} THEN assigneeIdsOf(t)
        ELSE LET w == CHOOSE s \in writers : TRUE
                 kept == SelectSeq(assigneeRowsOf(t),
                                   LAMBDA a : a \notin clients[w].deleted)
                 rows == IF clients[w].pc = "inserted"
                         THEN kept \o assigneeRows(t, clients[w].req.assigneeIds)
                         ELSE kept
             IN  [i \in 1..Len(rows) |-> rows[i].user_id]

\* SELECT user_id FROM task_assignees WHERE task_id, from a reader's own
\* connection: the committed rows.
assigneesQuery(t) == assigneeIdsOf(t)

\* getTask or the bootstrap reading a task while requests are in flight; the
\* observation keeps the committed array, the arrays of the requests in
\* flight, and whether one of them stood between its DELETE and its INSERT.
ReadTask ==
    \E t \in DOMAIN tasks :
        /\ observed' =
              [taskId |-> t,
               assigneeIds |-> assigneesQuery(t),
               old |-> assigneeIdsOf(t),
               new |-> {clients[s].req.assigneeIds :
                          s \in {o \in Clients : /\ clients[o].req.id = t
                                                 /\ clients[o].pc \in InFlight}},
               mid |-> \E s \in Clients : /\ clients[s].req.id = t
                                          /\ clients[s].pc = "deleted"]
        /\ UNCHANGED <<impl, usersCreated, notifications, store, resp,
                       originalTask, clients, lastCommit>>

-----------------------------------------------------------------------------
(* User accounts: /api/users (sql), /api/auth/login (sql) and api.login,     *)
(* api.updateUser, api.deleteUser, api.revokeGuest (mem)                     *)

\* An id no user row has.
UnknownUserId == "u0"

UserIds == DOMAIN users \cup {UnknownUserId}

ReqEmails == {"e1", "e2"}

Passwords == {"pw", "tmp"}

\* DELETE /api/users/:userId is documented "Private/Super Admin".
deleteUserAccess == {SuperAdminRole}

apiDeleteUserStatus(userId, currentUser) ==
    IF currentUser.role # SuperAdminRole THEN "unauthorized"
    ELSE IF userId \notin DOMAIN users THEN "notfound"
    ELSE "ok"

deleteUserStatus(userId, currentUser) ==
    IF ~authorize(deleteUserAccess, currentUser) THEN "unauthorized"
    ELSE IF userId \notin DOMAIN users THEN "notfound"
    ELSE "ok"

\* db.users[userIndex].disabled = true, whatever the role.
apiDisableUser(rows, userId) == [rows EXCEPT ![userId].disabled = TRUE]

\* DELETE FROM users for a Guest, UPDATE users SET disabled = true otherwise.
deleteUserRow(rows, userId) ==
    IF rows[userId].role = GuestRole
    THEN [u \in DOMAIN rows \ {userId} |-> rows[u]]
    ELSE [rows EXCEPT ![userId].disabled = TRUE]

DeleteUser ==
    \E c \in Callers, userId \in UserIds :
        LET st == IF impl = "mem" THEN apiDeleteUserStatus(userId, c)
                  ELSE deleteUserStatus(userId, c)
        IN  /\ users' = IF st # "ok" THEN users
                        ELSE IF impl = "mem" THEN apiDisableUser(users, userId)
                        ELSE deleteUserRow(users, userId)
            /\ resp' = Response("deleteUser", st, c, userId, NoId, NoPayload)
            /\ UNCHANGED <<impl, flight, notifications, columnId, usersCreated,
                           financial_entries, teams,
                           projects, tasks,
                           task_assignees, task_dependencies, comments,
                           originalTask>>

\* api.revokeGuest: db.users.filter(u => u.id !== guestId); the client calls
\* it with the id of a Guest.
RevokeGuest ==
    \E c \in Callers,
       guestId \in {u \in DOMAIN users : users[u].role = GuestRole} :
        /\ impl = "mem"
        /\ LET st == IF c.role # SuperAdminRole THEN "unauthorized" ELSE "ok"
           IN  /\ users' = IF st = "ok"
                           THEN [u \in DOMAIN users \ {guestId} |-> users[u]]
                           ELSE users
               /\ resp' = Response("revokeGuest", st, c, guestId, NoId, NoPayload)
        /\ UNCHANGED <<impl, flight, notifications, columnId, usersCreated,
                       financial_entries, teams,
                       projects, tasks,
                       task_assignees, task_dependencies, comments,
                       originalTask>>

\* PUT /api/users/:userId is documented "Private/Super Admin".
updateUserAccess == {SuperAdminRole}

\* The client sends the user as it has it, with the address and the disabled
\* flag edited.
UpdateUserRequests ==
    UNION {{[id |-> u, email |-> e, disabled |-> d,
             role |-> IF u \in DOMAIN users THEN users[u].role ELSE EmployeeRole,
             teamId |-> IF u \in DOMAIN users THEN users[u].teamId ELSE NoId,
             projectId |-> IF u \in DOMAIN users THEN users[u].projectId ELSE NoId,
             password |-> IF u \in DOMAIN users THEN users[u].password ELSE "pw"] :
                e \in ReqEmails, d \in BOOLEAN} : u \in UserIds}

apiUpdateUserStatus(r, currentUser) ==
    IF currentUser.role # SuperAdminRole /\ currentUser.id # r.id
    THEN "unauthorized" ELSE "ok"

updateUserStatus(r, currentUser) ==
    IF ~authorize(updateUserAccess, currentUser) THEN "unauthorized"
    ELSE IF r.id \notin DOMAIN users THEN "notfound"
    ELSE "ok"

\* db.users.map(u => u.id === updatedUser.id ? updatedUser : u)
apiUpdateUserRow(rows, r) ==
    [u \in DOMAIN rows |->
        IF u = r.id
        THEN User(r.role, r.teamId, r.projectId, r.email, r.password, r.disabled)
        ELSE rows[u]]

\* UPDATE users SET full_name, email, role, team_id, disabled WHERE user_id
updateUserRow(rows, r) ==
    [rows EXCEPT ![r.id] = [@ EXCEPT !.email = r.email, !.role = r.role,
                                     !.teamId = r.teamId,
                                     !.disabled = r.disabled]]

\* The client sends the user as it has it, with another role.
RoleChangeRequests ==
    {[id |-> u, email |-> users[u].email, disabled |-> users[u].disabled,
      role |-> ro, teamId |-> users[u].teamId,
      projectId |-> users[u].projectId, password |-> users[u].password] :
        u \in DOMAIN users, ro \in Roles}

UpdateUserWith(requests) ==
    \E c \in Callers, r \in requests :
        /\ LET st == IF impl = "mem" THEN apiUpdateUserStatus(r, c)
                     ELSE updateUserStatus(r, c)
           IN  /\ users' = IF st # "ok" THEN users
                           ELSE IF impl = "mem" THEN apiUpdateUserRow(users, r)
                           ELSE updateUserRow(users, r)
               /\ resp' = Response("updateUser", st, c, r.id, r, NoPayload)
        /\ UNCHANGED <<impl, flight, notifications, columnId, usersCreated,
                       financial_entries, teams,
                       projects, tasks,
                       task_assignees, task_dependencies, comments,
                       originalTask>>

\* Edits of the address and of the disabled flag.
UpdateUserOver(emails, flags) ==
    UpdateUserWith({r \in UpdateUserRequests :
                        r.email \in emails /\ r.disabled \in flags})

UpdateUser == UpdateUserOver(ReqEmails, BOOLEAN)

\* Edits of the role.
UpdateUserRole == UpdateUserWith(RoleChangeRequests)

UpdateUserEmail == UpdateUserOver(ReqEmails, {FALSE})

\* An invitation to any address.
InviteGuestAny == InviteGuestOver(ReqEmails)

\* POST /api/users for an Employee (the Guest case is InviteGuestOver) and
\* api.createUser.  The new row takes the next free id of UserOrder.
apiCreateUserStatus(email, currentUser) ==
    IF currentUser.role # SuperAdminRole THEN "unauthorized" ELSE "ok"

createUserStatus(email, currentUser) ==
    IF ~authorize(createUserAccess, currentUser) THEN "unauthorized"
    ELSE IF email \in emailsOf(users) THEN "conflict"
    ELSE "ok"

CreateUser ==
    \E c \in Callers, email \in ReqEmails \cup {unusedEmail(users)} :
        /\ usersCreated < MaxGuests
        /\ LET id == newUserId
               st == IF impl = "mem" THEN apiCreateUserStatus(email, c)
                     ELSE createUserStatus(email, c)
           IN  /\ users' = IF st = "ok"
                           THEN [u \in DOMAIN users \cup {id} |->
                                   IF u = id
                                   THEN User(EmployeeRole, NoId, NoId, email,
                                             "tmp", FALSE)
                                   ELSE users[u]]
                           ELSE users
               /\ resp' = Response("createUser", st, c,
                                   IF st = "ok" THEN id ELSE NoId,
                                   [email |-> email], NoPayload)
               /\ usersCreated' = IF st = "ok" THEN usersCreated + 1
                                  ELSE usersCreated
        /\ UNCHANGED <<impl, flight, notifications, columnId, financial_entries,
                       teams, projects, tasks,
                       task_assignees, task_dependencies, comments,
                       originalTask>>

\* POST /api/auth/register inserts a Super Admin unless the address is taken;
\* api.register, under the same condition, replaces the whole database by
\* the new Super Admin alone.
registerStatus(email) == IF email \in emailsOf(users) THEN "conflict" ELSE "ok"

RegisterWith(email) ==
        /\ usersCreated < MaxGuests
        /\ LET id == newUserId
               st == registerStatus(email)
               newAdmin == User(SuperAdminRole, NoId, NoId, email, "pw", FALSE)
           IN  /\ resp' = Response("register", st, NoCaller,
                                   IF st = "ok" THEN id ELSE NoId,
                                   [email |-> email], NoPayload)
               /\ usersCreated' = IF st = "ok" THEN usersCreated + 1
                                  ELSE usersCreated
               /\ IF st # "ok"
                  THEN UNCHANGED store
                  ELSE IF impl = "mem"
                  THEN /\ users' = [u \in {id} |-> newAdmin]
                       /\ teams' = [t \in {} |-> [leaderId |-> NoId]]
                       /\ projects' = [q \in {} |-> [teamId |-> NoId]]
                       /\ tasks' = [t \in {} |-> tasks[t]]
                       /\ columnId' = [t \in {} |-> columnId[t]]
                       /\ task_assignees' = <<>>
                       /\ task_dependencies' = <<>>
                       /\ comments' = <<>>
                       /\ financial_entries' = <<>>
                  ELSE /\ users' = [u \in DOMAIN users \cup {id} |->
                                      IF u = id THEN newAdmin ELSE users[u]]
                       /\ UNCHANGED <<teams, projects, tasks, columnId,
                                      task_assignees,
                                      task_dependencies, comments,
                                      financial_entries>>

Register ==
    \E email \in ReqEmails \cup {unusedEmail(users)} :
        /\ RegisterWith(email)
        /\ UNCHANGED <<impl, flight, notifications, originalTask>>

\* The transaction of registerUser when the handler is over: BEGIN, then
\* COMMIT after the INSERT, or the return for an address already taken,
\* which leaves the try block for finally { client.release() }.
registerUserTransaction(st) == IF st = "ok" THEN "none" ELSE "open"

\* registerUser on the pool client it was given.
RegisterPooled(s) ==
    \E email \in ReqEmails \cup {unusedEmail(users)} :
        /\ impl = "sql"
        /\ clients[s].pc = "idle"
        /\ RegisterWith(email)
        /\ clients' = [clients EXCEPT
                          ![s].transaction =
                              registerUserTransaction(registerStatus(email))]
        /\ UNCHANGED <<impl, lastCommit, observed, notifications, originalTask>>

\* The rows a login may pick.  loginCandidatesAnyState looks at no disabled
\* flag.  api.login takes the first user of db.users with
\* the address, the password and no disabled flag.  loginUser takes rows[0] of
\* SELECT * FROM users WHERE email = $1 AND disabled = false, a query with no
\* ORDER BY, so any row of the result may come first; the password is compared
\* afterwards, with that row only.
loginCandidatesAnyState(email, password) ==
    IF impl = "mem"
    THEN LET found == SelectSeq(AsArray(DOMAIN users, UserOrder),
                        LAMBDA u : users[u].email = email
                                   /\ users[u].password = password)
         IN  IF found = <<>> THEN {} ELSE {Head(found)}
    ELSE {u \in DOMAIN users : users[u].email = email}

loginCandidates(email, password) ==
    IF impl = "mem"
    THEN LET found == SelectSeq(AsArray(DOMAIN users, UserOrder),
                        LAMBDA u : users[u].email = email
                                   /\ users[u].password = password
                                   /\ ~users[u].disabled)
         IN  IF found = <<>> THEN {} ELSE {Head(found)}
    ELSE {u \in DOMAIN users : users[u].email = email /\ ~users[u].disabled}

Login ==
    \E email \in ReqEmails \cup {"e3"}, password \in Passwords :
        LET rows == loginCandidates(email, password)
        IN  /\ \E u \in rows \cup {NoId} :
                  /\ u = NoId => rows = {}
                  /\ resp' = IF u # NoId /\ users[u].password = password
                             THEN Response("login", "ok", NoCaller, u,
                                           [email |-> email, password |-> password],
                                           NoPayload)
                             ELSE Response("login", "unauthorized", NoCaller, NoId,
                                           [email |-> email, password |-> password],
                                           NoPayload)
            /\ UNCHANGED <<impl, flight, notifications, usersCreated, store,
                           originalTask>>

-----------------------------------------------------------------------------
\* Task visibility and update: guests, task updates and bootstrap.
NextTask == InviteGuest \/ UpdateTask \/ GetInitialData

SpecTask == Init /\ [][NextTask]_vars

\* Assignee replacement alone, with the client's earlier copy kept.
NextAssign == UpdateTaskTracked

SpecAssign == Init /\ [][NextAssign]_vars

\* Task creation alone.
NextAdd == AddTask

SpecAdd == Init /\ [][NextAdd]_vars

\* Bulk update alone.
NextBulk == BulkUpdateTasks

SpecBulk == Init /\ [][NextBulk]_vars

\* Comments, with guests invited to projects.
NextComment == InviteGuest \/ AddComment

SpecComment == Init /\ [][NextComment]_vars

\* Team administration.
NextTeams == CreateTeam \/ UpdateTeam \/ DeleteTeam

SpecTeams == Init /\ [][NextTeams]_vars

\* Team membership.
NextMembers == AddMembersToTeam \/ RemoveUserFromTeam

SpecMembers == Init /\ [][NextMembers]_vars

\* Financial entries, with guests invited to projects.
NextFinance == InviteGuest \/ AddFinancialTransaction

SpecFinance == Init /\ [][NextFinance]_vars

\* Team deletion among membership changes and bootstrap reads; no team is
\* created, so a deleted id stays out of use as a fresh id would.
NextDeleteTeam == AddMembersToTeam \/ DeleteTeam \/ GetInitialData

SpecDeleteTeam == Init /\ [][NextDeleteTeam]_vars

\* Accounts of every role, guests included, deleted.
NextUsers == InviteGuest \/ DeleteUser

SpecUsers == Init /\ [][NextUsers]_vars

\* Accounts registered, created, invited and given another address.
NextEmail == Register \/ CreateUser \/ InviteGuestAny \/ UpdateUserEmail

SpecEmail == Init /\ [][NextEmail]_vars

\* Guests invited, assigned to tasks and revoked, among bootstrap reads.
NextSnapshot == InviteGuest \/ UpdateTask \/ RevokeGuest \/ GetInitialData

SpecSnapshot == Init /\ [][NextSnapshot]_vars

\* Task updates that succeed, are refused, or meet a query that throws.
UpdateTaskPlain == UpdateTaskOver(ErrorAssignable) /\ UNCHANGED originalTask

NextQueryError == UpdateTaskPlain \/ UpdateTaskQueryError

SpecQueryError == Init /\ [][NextQueryError]_vars

\* Batches of two tasks, some without a row.
NextBatch == BulkUpdateMixed

SpecBatch == Init /\ [][NextBatch]_vars

\* The overdue sweep among task moves and notifications being read.
NextSweep == OverdueSweep \/ SetNotificationsRead \/ handleMoveTask

SpecSweep == Init /\ [][NextSweep]_vars

\* Comments and task moves fanned out to their recipients.
NextFanout == handleAddComment \/ handleRescheduleTask

SpecFanout == Init /\ [][NextFanout]_vars

\* One updateTask statement by statement, and a reader beside it.
Writer == "s1"

NextReaders ==
    \/ BeginReassignTask(Writer)
    \/ UpdateTaskRow(Writer)
    \/ DeleteAssigneeRows(Writer)
    \/ InsertAssigneeRows(Writer)
    \/ CommitUpdateTask(Writer)
    \/ apiRunUpdateTask(Writer)
    \/ RespondUpdateTask(Writer)
    \/ ReadTask

SpecReaders == Init /\ [][NextReaders]_vars

\* Two updateTask calls side by side.
NextWriters ==
    \E s \in Clients :
        \/ BeginUpdateTask(s)
        \/ UpdateTaskRow(s)
        \/ DeleteAssigneeRows(s)
        \/ InsertAssigneeRows(s)
        \/ CommitUpdateTask(s)
        \/ apiRunUpdateTask(s)
        \/ RespondUpdateTask(s)

SpecWriters == Init /\ [][NextWriters]_vars

\* Comments and what addComment answers, among task updates.
NextReply == AddCommentAnswered \/ UpdateTaskPlain

SpecReply == Init /\ [][NextReply]_vars

\* Bulk updates from the Gantt view.
NextGantt == BulkUpdateGantt

SpecGantt == Init /\ [][NextGantt]_vars

\* Roles edited.
NextRoles == UpdateUserRole

SpecRoles == Init /\ [][NextRoles]_vars

\* The pool clients handed to registerUser and to updateTask.
NextPool ==
    \/ \E s \in Clients : RegisterPooled(s)
    \/ BeginUpdateTask(Writer)
    \/ UpdateTaskRow(Writer)
    \/ DeleteAssigneeRows(Writer)
    \/ InsertAssigneeRows(Writer)
    \/ CommitUpdateTask(Writer)
    \/ apiRunUpdateTask(Writer)
    \/ RespondUpdateTask(Writer)

SpecPool == Init /\ [][NextPool]_vars

\* Accounts disabled, edited, enabled again and logged into.
NextLogin == DeleteUser \/ UpdateUser \/ Login

SpecLogin == Init /\ [][NextLogin]_vars

-----------------------------------------------------------------------------
(* Properties *)

AllTaskViews == {getFullTaskViewModel(t) : t \in DOMAIN tasks}

\* The project visibility set of a role: all projects (Super Admin), the
\* projects of the caller's team (Team Leader), the caller's project (Guest),
\* the projects holding a task assigned to the caller (Employee).
VisibleProjectIds(caller) ==
    projectsForCurrentUser(caller, DOMAIN projects, AllTaskViews)

BootstrapReturned == impl = "sql" /\ resp.op = "getInitialData"

\* C1: every task the bootstrap controller returns belongs to a project of
\* the visibility set of the caller's role.
C1_BootstrapTasksInVisibleProjects ==
    BootstrapReturned =>
        \A t \in resp.payload.tasks : t.projectId \in VisibleProjectIds(resp.caller)

\* C2: for a Guest the bootstrap controller returns exactly the guest's
\* project and only tasks of that project.
C2_GuestSeesOneProject ==
    (BootstrapReturned /\ resp.caller.role = GuestRole) =>
        /\ resp.payload.projects = {resp.caller.projectId}
        /\ \A t \in resp.payload.tasks : t.projectId = resp.caller.projectId

\* C3: for an Employee every returned task has the caller among its assignees.
C3_EmployeeSeesOnlyAssignedTasks ==
    (BootstrapReturned /\ resp.caller.role = EmployeeRole) =>
        \A t \in resp.payload.tasks : resp.caller.id \in Range(t.assigneeIds)

UpdateTaskSucceeded == resp.op = "updateTask" /\ resp.status = "ok"

\* C4: after a successful updateTask with assignee set S the stored links of
\* the task are exactly S, each once.
C4_AssigneesSetReplaced ==
    UpdateTaskSucceeded =>
        LET ids == assigneeIdsOf(resp.target)
        IN  /\ Range(ids) = Range(resp.req.assigneeIds)
            /\ Len(ids) = Cardinality(Range(ids))

\* C4 witness: a task held by {A, B} was updated with {B, C} and is held by
\* exactly {B, C}.
C4_Witness ==
    /\ UpdateTaskSucceeded
    /\ originalTask.id = resp.target
    /\ \E a, b, c \in DOMAIN users :
          /\ Cardinality({a, b, c}) = 3
          /\ Range(originalTask.assigneeIds) = {a, b}
          /\ Range(resp.req.assigneeIds) = {b, c}
          /\ Range(assigneeIdsOf(resp.target)) = {b, c}

\* The callers allowed to update task t: a Super Admin, the Team Leader of
\* the team owning the task's project, an assignee of the stored task.
MayUpdateTask(caller, t) ==
    \/ caller.role = SuperAdminRole
    \/ /\ caller.role = TeamLeaderRole
       /\ caller.teamId = projects[tasks[t].projectId].teamId
    \/ caller.id \in Range(assigneeIdsOf(t))

\* C5: api.updateTask by a caller who may not update the stored task fails
\* with Unauthorized and changes nothing.
C5_UpdateTaskDeniedForOthers ==
    [][(impl = "mem" /\ resp'.op = "updateTask"
            /\ ~MayUpdateTask(resp'.caller, resp'.target))
        => (resp'.status = "unauthorized" /\ store' = store)]_vars

\* C6: bulkUpdateTasks by a caller who is neither Super Admin nor Team Leader
\* fails with Unauthorized and changes no task row and no dependency link.
C6_BulkUpdateDeniedForOthers ==
    [][(resp'.op = "bulkUpdateTasks"
            /\ resp'.caller.role \notin {SuperAdminRole, TeamLeaderRole})
        => (/\ resp'.status = "unauthorized"
            /\ tasks' = tasks
            /\ task_dependencies' = task_dependencies)]_vars

\* The callers allowed to add a task to project p: a Super Admin, a Team
\* Leader whose team owns p.
MayAddTask(caller, p) ==
    \/ caller.role = SuperAdminRole
    \/ caller.role = TeamLeaderRole /\ caller.teamId = projects[p].teamId

\* C7: addTask by a caller who is neither Super Admin nor the Team Leader of
\* the project's team is denied and inserts no task row and no assignee link.
C7_AddTaskDeniedForOthers ==
    [][(resp'.op = "addTask" /\ ~MayAddTask(resp'.caller, resp'.req.projectId))
        => (/\ resp'.status # "ok"
            /\ tasks' = tasks
            /\ task_assignees' = task_assignees)]_vars

\* The callers allowed to comment on task t: a Super Admin, the Team Leader
\* of the team owning the task's project, an assignee of the task, a Guest of
\* the task's project.
MayComment(caller, t) ==
    \/ caller.role = SuperAdminRole
    \/ /\ caller.role = TeamLeaderRole
       /\ caller.teamId = projects[tasks[t].projectId].teamId
    \/ caller.id \in Range(assigneeIdsOf(t))
    \/ caller.role = GuestRole /\ caller.projectId = tasks[t].projectId

\* C8: addComment by a caller who may not comment on the task is denied and
\* inserts no comment row.
C8_AddCommentDeniedForOthers ==
    [][(resp'.op = "addComment" /\ ~MayComment(resp'.caller, resp'.target))
        => (resp'.status # "ok" /\ comments' = comments)]_vars

TeamAdminOps == {"createTeam", "updateTeam", "deleteTeam"}

\* C9: createTeam, updateTeam and deleteTeam by a caller who is not a Super
\* Admin fail with an authorization error and leave the teams and every
\* user's teamId as they were.
C9_TeamAdminDeniedForOthers ==
    [][(resp'.op \in TeamAdminOps /\ resp'.caller.role # SuperAdminRole)
        => (/\ resp'.status = "unauthorized"
            /\ teams' = teams
            /\ \A u \in DOMAIN users : users'[u].teamId = users[u].teamId)]_vars

\* C9 witness: an Employee was refused the deletion of a team while a team
\* with members exists.
C9_Witness ==
    /\ resp.op = "deleteTeam"
    /\ resp.caller.role = EmployeeRole
    /\ resp.status = "unauthorized"
    /\ \E u \in DOMAIN users : users[u].teamId \in DOMAIN teams

\* The callers allowed to change the members of a team: a Super Admin, a
\* Team Leader whose own teamId is the team's id.
MayChangeMembers(caller, teamId) ==
    \/ caller.role = SuperAdminRole
    \/ caller.role = TeamLeaderRole /\ caller.teamId = teamId

\* C10: adding members to a team or removing one by any other caller is
\* denied and changes no user's teamId.
C10_MembersDeniedForOthers ==
    [][(resp'.op \in {"addMembersToTeam", "removeUserFromTeam"}
            /\ ~MayChangeMembers(resp'.caller, resp'.target))
        => (/\ resp'.status # "ok"
            /\ \A u \in DOMAIN users : users'[u].teamId = users[u].teamId)]_vars

\* The callers allowed to add an entry of a type: a Super Admin any type, a
\* Team Leader an Expense.
MayAddEntry(caller, type) ==
    \/ caller.role = SuperAdminRole
    \/ caller.role = TeamLeaderRole /\ type = "Expense"

\* C11: addFinancialTransaction by a caller the entry type does not admit
\* fails with Unauthorized and leaves the financial entries unchanged.
C11_EntryDeniedByType ==
    [][(resp'.op = "addFinancialTransaction"
            /\ ~MayAddEntry(resp'.caller, resp'.req.type))
        => (/\ resp'.status = "unauthorized"
            /\ financial_entries' = financial_entries)]_vars

\* C12: a successful deleteTeam(T) removes the team row and clears the teamId
\* of exactly the users that had teamId = T, deleting no user; a failed one
\* does neither; and a bootstrap returns only teams that are stored.
C12_DeleteTeamReconciles ==
    /\ [][resp'.op = "deleteTeam" =>
            IF resp'.status = "ok"
            THEN /\ resp'.target \notin DOMAIN teams'
                 /\ DOMAIN users' = DOMAIN users
                 /\ \A u \in DOMAIN users :
                        users'[u] = IF users[u].teamId = resp'.target
                                    THEN [users[u] EXCEPT !.teamId = NoId]
                                    ELSE users[u]
            ELSE teams' = teams /\ users' = users]_vars
    /\ [](resp.op = "getInitialData" => resp.payload.teams = DOMAIN teams)

\* C12 witness: team-dev, which had the leader u2 and the member u3, is
\* deleted; a later bootstrap lists both users and not the team.
C12_Witness ==
    /\ resp.op = "getInitialData"
    /\ "team-dev" \notin resp.payload.teams
    /\ "team-mkt" \in resp.payload.teams
    /\ {"u2", "u3"} \subseteq resp.payload.users
    /\ users["u2"].teamId = NoId /\ users["u3"].teamId = NoId

\* C13: the updatedUsers of a successful createTeam or updateTeam hold every
\* user whose teamId the operation changed, each with the teamId now stored.
C13_UpdatedUsersComplete ==
    [][(resp'.op \in {"createTeam", "updateTeam"} /\ resp'.status = "ok") =>
        /\ \A u \in DOMAIN users :
              users'[u].teamId # users[u].teamId =>
                  [id |-> u, teamId |-> users'[u].teamId]
                      \in resp'.payload.updatedUsers
        /\ \A e \in resp'.payload.updatedUsers :
              users'[e.id].teamId = e.teamId]_vars

\* C13 witness: an updateTeam answered with a user that joined the team and
\* a user that left it.
C13_Witness ==
    /\ resp.op = "updateTeam" /\ resp.status = "ok"
    /\ \E a, b \in resp.payload.updatedUsers :
          a.teamId = resp.target /\ b.teamId = NoId

\* C14: deleteUser keeps the row of a user that is no Guest and sets its
\* disabled flag, every other field as it was; it removes the row of a Guest;
\* for an unknown id it reports not-found and changes nothing.
C14_DeleteUserSoftOrHard ==
    [][(resp'.op = "deleteUser" /\ resp'.status # "unauthorized") =>
        IF resp'.target \notin DOMAIN users
        THEN resp'.status = "notfound" /\ users' = users
        ELSE /\ resp'.status = "ok"
             /\ users' = IF users[resp'.target].role = GuestRole
                         THEN [u \in DOMAIN users \ {resp'.target} |-> users[u]]
                         ELSE [users EXCEPT ![resp'.target].disabled = TRUE]]_vars

C16_EmailsUnique ==
    /\ [](\A u, v \in DOMAIN users : u # v => users[u].email # users[v].email)
    /\ [][(/\ resp'.op = "createUser"
           /\ resp'.status # "unauthorized"
           /\ resp'.req.email \in emailsOf(users))
            => resp'.status = "conflict" /\ users' = users]_vars

\* C17: in every bootstrap result the assignees of the returned tasks and the
\* authors of the returned comments are among the returned users.
C17_BootstrapSelfConsistent ==
    resp.op = "getInitialData" =>
        /\ \A t \in resp.payload.tasks :
              Range(t.assigneeIds) \subseteq resp.payload.users
        /\ \A c \in resp.payload.comments : c.userId \in resp.payload.users

C19_FailureLeavesStore ==
    [][(/\ resp'.op \in {"updateTask", "addTask", "addComment", "createTeam",
                         "updateTeam", "deleteTeam"}
        /\ resp'.status # "ok") => store' = store]_vars

\* C20: a bulkUpdateTasks that fails on a task of its batch changes no task
\* and no dependency link; one that succeeds has updated every task of the
\* batch.
C20_BulkAllOrNothing ==
    [][(resp'.op = "bulkUpdateTasks" /\ resp'.status # "unauthorized") =>
        IF resp'.status = "ok"
        THEN \A i \in 1..Len(resp'.req) :
                /\ resp'.req[i].id \in DOMAIN tasks'
                /\ tasks'[resp'.req[i].id].endDate = resp'.req[i].endDate
                /\ {task_dependencies'[j].source_task_id :
                        j \in {k \in 1..Len(task_dependencies') :
                                task_dependencies'[k].target_task_id
                                    = resp'.req[i].id}}
                      = Range(resp'.req[i].dependencies)
        ELSE tasks' = tasks /\ task_dependencies' = task_dependencies]_vars

\* C21: the notification list never holds two unread notifications with the
\* same userId, taskId and text, and an overdue sweep over a task whose
\* notification is unread adds nothing for it.
C21_NotificationsDeduplicated ==
    \A i, j \in 1..Len(notifications) :
        (/\ i # j
         /\ ~notifications[i].read /\ ~notifications[j].read
         /\ notifications[i].userId = notifications[j].userId
         /\ notifications[i].taskId = notifications[j].taskId)
            => ~sameText(notifications[i].text, notifications[j].text)

\* C21 witness: an overdue notification was read and the sweep has added it
\* again, once.
C21_Witness ==
    \E i, j \in 1..Len(notifications) :
        /\ i < j
        /\ notifications[i].text.kind = "overdue" /\ ~notifications[i].read
        /\ notifications[j].text.kind = "overdue" /\ notifications[j].read
        /\ notifications[i].taskId = notifications[j].taskId
        /\ notifications[i].userId = notifications[j].userId

\* The category a notification was raised under, read off its text pattern.
categoryOf(text) ==
    CASE text.kind \in {"overdue", "done", "stuck"} -> "onStatusChange"
      [] text.kind = "due" -> "onDueDateChange"
      [] text.kind = "assigned" -> "onAssignment"
      [] text.kind = "comment" -> "onComment"

C24_LastWriteWins ==
    \A s \in Clients :
        (/\ lastCommit = s
         /\ \A o \in Clients : clients[o].pc = "committed"
         /\ \A o \in Clients : clients[o].req.id = clients[s].req.id)
            => /\ tasks[clients[s].req.id].title = clients[s].req.title
               /\ tasks[clients[s].req.id].endDate = clients[s].req.endDate
               /\ assigneeIdsOf(clients[s].req.id) = clients[s].req.assigneeIds

\* Both calls committed on the same task with different titles and assignee
\* arrays, the second UPDATE having waited for the first COMMIT.
C24_Witness ==
    /\ impl = "sql"
    /\ clients["s1"].pc = "committed" /\ clients["s2"].pc = "committed"
    /\ clients["s1"].req.id = clients["s2"].req.id
    /\ clients["s1"].req.title # clients["s2"].req.title
    /\ clients["s1"].req.assigneeIds # clients["s2"].req.assigneeIds
    /\ lastCommit = "s2"

\* C25: a successful addComment returns the full reassembled task, not the
\* bare comment: its comments are the stored comments of the task, the new
\* one by the caller last, and its assigneeIds and dependencies are the
\* stored ones.
C25_AddCommentReturnsTask ==
    (resp.op = "addComment" /\ resp.status = "ok") =>
        /\ resp.payload.kind = "task"
        /\ resp.payload.comments = commentsOfTask(comments, resp.target)
        /\ resp.payload.comments[Len(resp.payload.comments)].userId = resp.caller.id
        /\ resp.payload.task.assigneeIds = assigneeIdsOf(resp.target)
        /\ resp.payload.task.dependencies = dependenciesOf(resp.target)

\* C26: bulkUpdateTasks changes, for each task of the batch, only its dates
\* and its dependency set; titles, columns, projects, assignee links and
\* comments, and every task outside the batch, stay as they were.
C26_BulkUpdateFrame ==
    [][(resp'.op = "bulkUpdateTasks" /\ resp'.status = "ok") =>
        /\ DOMAIN tasks' = DOMAIN tasks
        /\ \A t \in DOMAIN tasks :
              /\ tasks'[t].title = tasks[t].title
              /\ tasks'[t].projectId = tasks[t].projectId
              /\ (\A i \in 1..Len(resp'.req) : resp'.req[i].id # t)
                    => /\ tasks'[t] = tasks[t]
                       /\ SelectSeq(task_dependencies',
                                    LAMBDA d : d.target_task_id = t)
                            = SelectSeq(task_dependencies,
                                        LAMBDA d : d.target_task_id = t)
        /\ columnId' = columnId
        /\ task_assignees' = task_assignees
        /\ comments' = comments]_vars

\* C27: each project's teamId names a team that exists in the store; deleting
\* a team leaves no project that references it.
C27_ProjectsHaveTeams ==
    \A p \in DOMAIN projects : projects[p].teamId \in DOMAIN teams

\* C28: a user has a teamId only if their role is Team Leader or Employee,
\* has a projectId if and only if their role is Guest, and never has both.
C28_ScopeMatchesRole ==
    \A u \in DOMAIN users :
        /\ users[u].teamId # NoId
              => users[u].role \in {TeamLeaderRole, EmployeeRole}
        /\ users[u].projectId # NoId <=> users[u].role = GuestRole
        /\ ~(users[u].teamId # NoId /\ users[u].projectId # NoId)

\* C29: an updateUser issued by a caller who is not a Super Admin changes
\* no user's role, the caller's own included.
C29_OnlySuperAdminChangesRoles ==
    [][(resp'.op = "updateUser" /\ resp'.caller.role # SuperAdminRole) =>
        \A u \in DOMAIN users :
            u \in DOMAIN users' /\ users'[u].role = users[u].role]_vars

\* C30: no connection is back in the pool with a transaction still open:
\* every BEGIN of a handler is followed by a COMMIT or a ROLLBACK before
\* client.release().
C30_NoOpenTransactionInPool ==
    \A s \in Clients :
        clients[s].pc = "idle" => clients[s].transaction = "none"

====
